---------------------------- MODULE Spec2Model ----------------------------
(***************************************************************************)
(* A model of the depth-first web crawler (src/webcrawler.py) and of the   *)
(* inverted-index builder it drives (src/indexer.py, src/utils.py).        *)
(*                                                                         *)
(* Conventions                                                             *)
(*  - A Python dict is a TLA+ function whose DOMAIN is the dict's key set; *)
(*    a missing key is a value outside the DOMAIN.                         *)
(*  - A Python float is a fixed-point integer counting units of 1e-7       *)
(*    (FloatScale); the 6-decimal text of a float is Format6 of it.        *)
(*  - A URL is a record [page, slash, frag]: the resource it names, and    *)
(*    whether its text carries a trailing path slash and a #fragment.      *)
(*  - A text is a sequence of one-character strings.                       *)
(***************************************************************************)
EXTENDS Integers, Sequences, FiniteSets, TLC

(***************************************************************************)
(* Bounds of the model.                                                    *)
(***************************************************************************)
\* WebCrawler(max_urls=...): frontier capacity and processed-URL budget
MaxUrls == 4
\* WebCrawler(max_depth=...)
MaxDepth == 1
\* number of documents added through the Indexer's own API in one run
MaxDocs == 2

(***************************************************************************)
(* Generic helpers.                                                        *)
(***************************************************************************)
EmptyMap == [x \in {} |-> 0]

Range(f) == {f[x] : x \in DOMAIN f}

\* d[k] = v of a Python dict: insert or overwrite
Put(d, k, v) == [x \in (DOMAIN d) \cup {k} |-> IF x = k THEN v ELSE d[x]]

\* the keys of a dict in insertion order, after d[k] = v: a key already
\* present keeps its place
PutKey(keys, k) == IF k \in Range(keys) THEN keys ELSE Append(keys, k)

Max(S) == CHOOSE m \in S : \A x \in S : x <= m

Min(S) == CHOOSE m \in S : \A x \in S : m <= x

\* the elements of a finite set of integers in ascending order
RECURSIVE Ascending(_)
Ascending(S) == IF S = {} THEN << >> ELSE <<Min(S)>> \o Ascending(S \ {Min(S)})

Abs(x) == IF x < 0 THEN -x ELSE x

(***************************************************************************)
(* Floats.                                                                 *)
(***************************************************************************)
\* one unit of the fixed-point floats is 1e-7
FloatScale == 10000000

\* the float 1.0
One == FloatScale

\* math.log(N / df) for the small counts of the model, in units of 1e-7
LnTable ==
  << <<        0,  -6931472, -10986123, -13862944, -16094379, -17917595>>,
     <<  6931472,         0,  -4054651,  -6931472,  -9162907, -10986123>>,
     << 10986123,   4054651,         0,  -2876821,  -5108256,  -6931472>>,
     << 13862944,   6931472,   2876821,         0,  -2231436,  -4054651>>,
     << 16094379,   9162907,   5108256,   2231436,         0,  -1823216>>,
     << 17917595,  10986123,   6931472,   4054651,   1823216,         0>> >>

\* math.log(N / df), N >= 1 and df >= 1; N = 0 raises ValueError (see LogRaises)
Log(N, df) == LnTable[N][df]

\* math.log(0 / df) is math.log(0.0): "math domain error"
LogRaises(N, df) == N = 0

\* f"{x:.6f}": the float rounded to 6 decimals (round-half-even), as the
\* integer count of 1e-6 units that the text shows
Format6(x) ==
  LET a == Abs(x)
      q == a \div 10
      r == a % 10
      m == IF r > 5 \/ (r = 5 /\ q % 2 = 1) THEN q + 1 ELSE q
  IN  IF x < 0 THEN -m ELSE m

\* float("d.dddddd"): the float a 6-decimal text denotes
Parse6(t) == t * 10

\* integer square root by bisection: lo*lo <= n < hi*hi
RECURSIVE SqrtIter(_, _, _)
SqrtIter(n, lo, hi) ==
  IF hi - lo <= 1 THEN lo
  ELSE LET mid == (lo + hi) \div 2
       IN  IF mid * mid <= n THEN SqrtIter(n, mid, hi) ELSE SqrtIter(n, lo, mid)

\* math.sqrt of a sum of squares of floats, computed on the floats cut to
\* 1e-3 (the squares of 1e-7 units do not fit the model's integers)
SqrtSumSquares(xs) ==
  LET RECURSIVE Sum(_)
      Sum(s) == IF s = << >> THEN 0
                ELSE (Abs(Head(s)) \div 10000) * (Abs(Head(s)) \div 10000) + Sum(Tail(s))
  IN  SqrtIter(Sum(xs), 0, 30000) * 10000

(***************************************************************************)
(* Tokens: src/utils.py and src/stop_words.py.                             *)
(***************************************************************************)
Digits == {"0", "1", "2", "3", "4", "5", "6", "7", "8", "9"}

LowerLetters == {"a", "c", "d", "e", "g", "h", "n", "o", "s", "t", "x"}

UpperLetters == {"C", "T"}

\* string.punctuation, as far as the texts of the model use it
Punctuation == {".", ",", "-", "!"}

\* str.lower() of one character
LowerChar(c) == IF c = "C" THEN "c" ELSE IF c = "T" THEN "t" ELSE c

\* [a-zA-Z0-9]
IsAlnum(c) == c \in Digits \cup LowerLetters \cup UpperLetters

\* re.findall(r'[a-zA-Z0-9]+', s): the maximal alphanumeric runs, in order
RECURSIVE SplitFrom(_, _, _)
SplitFrom(s, i, run) ==
  IF i > Len(s) THEN (IF run = << >> THEN << >> ELSE <<run>>)
  ELSE IF IsAlnum(s[i]) THEN SplitFrom(s, i + 1, Append(run, s[i]))
  ELSE (IF run = << >> THEN << >> ELSE <<run>>) \o SplitFrom(s, i + 1, << >>)

splitchars(s) == SplitFrom(s, 1, << >>)

\* token.lower().strip()
normalize_token(token) ==
  LET low == [i \in 1..Len(token) |-> LowerChar(token[i])]
      RECURSIVE LStrip(_)
      LStrip(t) == IF t # << >> /\ Head(t) = " " THEN LStrip(Tail(t)) ELSE t
      RECURSIVE RStrip(_)
      RStrip(t) == IF t # << >> /\ t[Len(t)] = " " THEN RStrip(SubSeq(t, 1, Len(t) - 1)) ELSE t
  IN  RStrip(LStrip(low))

\* the entries of STOP_WORDS that the texts of the model use
STOP_WORDS == { <<"a">>, <<"t", "h", "e">>, <<"t", "o">> }

is_stop_word(word) == word \in STOP_WORDS

starts_with_punctuation(s) == IF s = << >> THEN FALSE ELSE s[1] \in Punctuation

is_short(s) == Len(s) <= 2

IsDigitRun(s) == s # << >> /\ \A i \in 1..Len(s) : s[i] \in Digits

\* float(s) succeeds: digits, digits with an exponent, or nan/inf/infinity
is_number(s) ==
  \/ IsDigitRun(s)
  \/ \E i \in 1..Len(s) : /\ s[i] = "e"
                          /\ IsDigitRun(SubSeq(s, 1, i - 1))
                          /\ IsDigitRun(SubSeq(s, i + 1, Len(s)))
  \/ s \in { <<"n", "a", "n">>, <<"i", "n", "f">> }

\* PorterStemmer.stem(word, 0, len(word)-1), step 1a for a plural: a final
\* "s" that does not follow an "s" is dropped
stem(word) ==
  IF Len(word) > 3 /\ word[Len(word)] = "s" /\ word[Len(word) - 1] # "s"
  THEN SubSeq(word, 1, Len(word) - 1)
  ELSE word

(***************************************************************************)
(* The token filter of process_document / process_document_from_text.      *)
(***************************************************************************)
\* a faulty fallback that drops the last character of a token the stemmer
\* raised on
StemOrTruncate(token_lower, failing) ==
  IF token_lower \in failing THEN SubSeq(token_lower, 1, Len(token_lower) - 1)
  ELSE stem(token_lower)

\* the stemmer call inside try/except: `failing` is the set of tokens on
\* which the stemmer raises, and the except branch keeps the token itself
StemOrFallback(token_lower, failing) ==
  IF token_lower \in failing THEN token_lower ELSE stem(token_lower)

\* a faulty filter chain that tests the length before the stop words
FateShortFirst(token_lower) ==
  IF token_lower = << >> THEN "empty"
  ELSE IF is_short(token_lower) THEN "short"
  ELSE IF is_stop_word(token_lower) THEN "stop"
  ELSE IF starts_with_punctuation(token_lower) THEN "punctuation"
  ELSE IF is_number(token_lower) THEN "number"
  ELSE "term"

\* which branch of the per-token loop a normalized token takes
Fate(token_lower) ==
  IF token_lower = << >> THEN "empty"
  ELSE IF is_stop_word(token_lower) THEN "stop"
  ELSE IF starts_with_punctuation(token_lower) THEN "punctuation"
  ELSE IF is_short(token_lower) THEN "short"
  ELSE IF is_number(token_lower) THEN "number"
  ELSE "term"

\* the normalized tokens of a text, in order
Tokens(text) ==
  LET raw == splitchars(text)
  IN  [i \in 1..Len(raw) |-> normalize_token(raw[i])]

\* a faulty count for a token loop whose stop-word branch does not `continue`:
\* a short stop word is counted as a short word as well
CountFateNoContinue(text, fate) ==
  Cardinality({i \in 1..Len(Tokens(text)) :
     IF fate = "short"
     THEN Tokens(text)[i] # << >> /\ ~starts_with_punctuation(Tokens(text)[i])
          /\ is_short(Tokens(text)[i])
     ELSE Fate(Tokens(text)[i]) = fate})

\* how many tokens of the text take the given branch
CountFate(text, fate) ==
  Cardinality({i \in 1..Len(Tokens(text)) : Fate(Tokens(text)[i]) = fate})

\* the stems of the surviving tokens, one per token, in order
RECURSIVE StemsOf(_, _)
StemsOf(toks, failing) ==
  IF toks = << >> THEN << >>
  ELSE (IF Fate(Head(toks)) = "term"
        THEN <<StemOrFallback(Head(toks), failing)>> ELSE << >>)
       \o StemsOf(Tail(toks), failing)

\* the keys of term_freq in insertion order: each stem at its first occurrence
RECURSIVE FirstOccurrences(_, _)
FirstOccurrences(stems, seen) ==
  IF stems = << >> THEN << >>
  ELSE IF Head(stems) \in seen THEN FirstOccurrences(Tail(stems), seen)
  ELSE <<Head(stems)>> \o FirstOccurrences(Tail(stems), seen \cup {Head(stems)})

\* a faulty term_freq that records the presence of a stem, not its count
TermFreqPresence(text, failing) ==
  LET keys == FirstOccurrences(StemsOf(Tokens(text), failing), {})
  IN  [k \in 1..Len(keys) |-> [term |-> keys[k], freq |-> 1]]

\* term_freq after the token loop: a sequence of [term, freq] in dict order
TermFreq(text, failing) ==
  LET stems == StemsOf(Tokens(text), failing)
      keys  == FirstOccurrences(stems, {})
  IN  [k \in 1..Len(keys) |->
         [term |-> keys[k],
          freq |-> Cardinality({i \in 1..Len(stems) : stems[i] = keys[k]})]]

(***************************************************************************)
(* Inputs: what a fetched page or a corpus file can hold.                  *)
(***************************************************************************)
\* "The a to" : stop words only
TextStops == <<"T", "h", "e", " ", "a", " ", "t", "o">>

\* "Cats, cat dogs." : two tokens with one stem, and a token the stemmer
\* raises on
TextCats ==
  <<"C", "a", "t", "s", ",", " ", "c", "a", "t", " ", "d", "o", "g", "s", ".">>

\* "dog cat 42 ox 123" : two terms, a short number, a short word, a number
TextDog ==
  <<"d", "o", "g", " ", "c", "a", "t", " ", "4", "2", " ", "o", "x", " ", "1", "2", "3">>

\* the texts a fetched page or a corpus file can hold
Texts == {TextStops, TextCats, TextDog}

\* the normalized tokens on which the stemmer raises
StemFails == { <<"d", "o", "g", "s">> }

\* a document's text, and the tokens on which the stemmer raises
DocInputs == {[text |-> t, failing |-> StemFails] : t \in Texts}

\* TermFreq and the per-branch token counts of the documents of the model,
\* evaluated once
TermFreqTable == [in \in DocInputs |-> TermFreq(in.text, in.failing)]

TermFreqOf(text, failing) == TermFreqTable[[text |-> text, failing |-> failing]]

Fates == {"empty", "stop", "punctuation", "short", "number", "term"}

CountFateTable ==
  [text \in {in.text : in \in DocInputs} |-> [fate \in Fates |-> CountFate(text, fate)]]

CountFateOf(text, fate) == CountFateTable[text][fate]

TokenCountTable == [text \in {in.text : in \in DocInputs} |-> Len(Tokens(text))]

(***************************************************************************)
(* The Indexer object: src/indexer.py.                                     *)
(***************************************************************************)
\* Indexer.__init__
NewIndexer ==
  [documents     |-> EmptyMap,   \* doc_path -> doc_id
   documents_keys |-> << >>,     \* the doc_paths in the order documents holds them
   documents_inv |-> EmptyMap,   \* doc_id -> doc_path
   terms         |-> EmptyMap,   \* term -> term_id
   terms_inv     |-> EmptyMap,   \* term_id -> term
   postings      |-> EmptyMap,   \* term_id -> (doc_id -> posting)
   doc_lengths   |-> EmptyMap,   \* doc_id -> float
   next_doc_id   |-> 1,
   next_term_id  |-> 1,
   total_docs    |-> 0,
   total_terms   |-> 0,
   stats         |-> [tokens_processed          |-> 0,
                      stop_words_matched        |-> 0,
                      short_words_ignored       |-> 0,
                      numbers_ignored           |-> 0,
                      punctuation_words_ignored |-> 0]]

\* the "Add to postings" loop of process_document_from_text over term_freq
RECURSIVE RecordTerms(_, _, _)
RecordTerms(ix, term_freq, doc_id) ==
  IF term_freq = << >> THEN ix
  ELSE LET term    == Head(term_freq).term
           freq    == Head(term_freq).freq
           isNew   == term \notin DOMAIN ix.terms
           ix1     == IF isNew
                      THEN [ix EXCEPT !.terms = Put(@, term, ix.next_term_id),
                                      !.terms_inv = Put(@, ix.next_term_id, term),
                                      !.next_term_id = @ + 1]
                      ELSE ix
           term_id == ix1.terms[term]
           old     == IF term_id \in DOMAIN ix1.postings
                      THEN ix1.postings[term_id] ELSE EmptyMap
           ix2     == [ix1 EXCEPT !.postings =
                         Put(@, term_id, Put(old, doc_id, [tf |-> freq]))]
       IN  RecordTerms(ix2, Tail(term_freq), doc_id)

\* a faulty process_document_from_text that never advances next_doc_id
process_document_same_id(ix, doc_content, doc_path, failing) ==
  RecordTerms([ix EXCEPT !.documents = Put(@, doc_path, ix.next_doc_id),
                         !.documents_keys = PutKey(@, doc_path),
                         !.documents_inv = Put(@, ix.next_doc_id, doc_path)],
              TermFreqOf(doc_content, failing), ix.next_doc_id)

\* Indexer.process_document_from_text(doc_content, doc_path)
process_document_from_text(ix, doc_content, doc_path, failing) ==
  LET doc_id == ix.next_doc_id
      ix1 == [ix EXCEPT
                !.documents = Put(@, doc_path, doc_id),
                !.documents_keys = PutKey(@, doc_path),
                !.documents_inv = Put(@, doc_id, doc_path),
                !.next_doc_id = @ + 1,
                !.stats.tokens_processed =
                   @ + TokenCountTable[doc_content] - CountFateOf(doc_content, "empty"),
                !.stats.stop_words_matched = @ + CountFateOf(doc_content, "stop"),
                !.stats.punctuation_words_ignored =
                   @ + CountFateOf(doc_content, "punctuation"),
                !.stats.short_words_ignored = @ + CountFateOf(doc_content, "short"),
                !.stats.numbers_ignored = @ + CountFateOf(doc_content, "number")]
  IN  RecordTerms(ix1, TermFreqOf(doc_content, failing), doc_id)

\* a faulty scoring of one term that keeps the df a posting already carries
ScoreTermKeepDf(doc_postings, N) ==
  [doc_id \in DOMAIN doc_postings |->
     LET df  == IF "df" \in DOMAIN doc_postings[doc_id]
                THEN doc_postings[doc_id].df
                ELSE Cardinality(DOMAIN doc_postings)
         idf == Log(N, df)
     IN  [tf     |-> doc_postings[doc_id].tf,
          tf_idf |-> doc_postings[doc_id].tf * idf,
          idf    |-> idf,
          df     |-> df]]

\* a faulty scoring of one term that stores the weight in tf as well
ScoreTermOverwritesTf(doc_postings, N) ==
  LET df  == Cardinality(DOMAIN doc_postings)
      idf == Log(N, df)
  IN  [doc_id \in DOMAIN doc_postings |->
         [tf     |-> doc_postings[doc_id].tf * idf,
          tf_idf |-> doc_postings[doc_id].tf * idf,
          idf    |-> idf,
          df     |-> df]]

\* the body of calculate_tf_idf for one term: idf, and tf_idf, idf, df stored
\* on every posting of the term
ScoreTerm(doc_postings, N) ==
  LET df  == Cardinality(DOMAIN doc_postings)
      idf == Log(N, df)
  IN  [doc_id \in DOMAIN doc_postings |->
         [tf     |-> doc_postings[doc_id].tf,
          tf_idf |-> doc_postings[doc_id].tf * idf,
          idf    |-> idf,
          df     |-> df]]

\* the loop of calculate_tf_idf over postings with document count N; math.log
\* raises at the first term with df > 0 when N = 0, before any posting is
\* written, and the exception leaves the method
ScoreRaises(postings, N) ==
  \E term_id \in DOMAIN postings :
     /\ Cardinality(DOMAIN postings[term_id]) > 0
     /\ LogRaises(N, Cardinality(DOMAIN postings[term_id]))

ScorePostings(postings, N) ==
  IF ScoreRaises(postings, N) THEN postings
  ELSE [term_id \in DOMAIN postings |->
          IF Cardinality(DOMAIN postings[term_id]) = 0 THEN postings[term_id]
          ELSE ScoreTerm(postings[term_id], N)]

\* Indexer.calculate_tf_idf: N = len(self.documents)
calculate_tf_idf(ix) ==
  [ix EXCEPT !.postings = ScorePostings(@, Cardinality(DOMAIN ix.documents))]

\* the postings that reference a document, as a sequence in term order
DocPostings(postings, doc_id) ==
  LET tids == Ascending({t \in DOMAIN postings : doc_id \in DOMAIN postings[t]})
  IN  [k \in 1..Len(tids) |-> postings[tids[k]][doc_id]]

\* doc_postings[doc_id]['tf_idf'] raises KeyError on a posting never scored
LengthRaises(postings, doc_id) ==
  \E t \in DOMAIN postings :
     doc_id \in DOMAIN postings[t] /\ "tf_idf" \notin DOMAIN postings[t][doc_id]

\* math.sqrt(length_squared) if length_squared > 0 else 1.0
DocLength(postings, doc_id) ==
  LET ps == DocPostings(postings, doc_id)
      ws == [k \in 1..Len(ps) |-> ps[k].tf_idf]
  IN  IF \E k \in 1..Len(ws) : ws[k] # 0 THEN SqrtSumSquares(ws) ELSE One

\* Indexer.calculate_document_lengths: the loop over documents_inv (in the
\* order the ids were inserted, ascending); a KeyError ends it at the first
\* document that still has an unscored posting
RECURSIVE LengthsLoop(_, _, _)
LengthsLoop(doc_lengths, postings, doc_ids) ==
  IF doc_ids = << >> \/ LengthRaises(postings, Head(doc_ids)) THEN doc_lengths
  ELSE LengthsLoop(Put(doc_lengths, Head(doc_ids), DocLength(postings, Head(doc_ids))),
                   postings, Tail(doc_ids))

calculate_document_lengths(ix) ==
  [ix EXCEPT !.doc_lengths =
     LengthsLoop(@, ix.postings, Ascending(DOMAIN ix.documents_inv))]

(***************************************************************************)
(* Persistence: Indexer.save_index and Indexer.load_index.  A file is the  *)
(* set of its records; a float field holds the 6-decimal text's value.     *)
(***************************************************************************)
\* no index files in the directory
NoFiles == [present |-> FALSE]

\* posting.get(key, 0)
PostingGet(posting, key) == IF key \in DOMAIN posting THEN posting[key] ELSE 0

\* the four files save_index writes; the records of documents.dat carry
\* their line number, the other files are read whole or not at all
save_index(ix) ==
  [present     |-> TRUE,
   documents   |-> {[line |-> i, doc_path |-> ix.documents_keys[i],
                     doc_id |-> ix.documents[ix.documents_keys[i]]]
                      : i \in 1..Len(ix.documents_keys)},
   terms       |-> {[term |-> t, term_id |-> ix.terms[t]] : t \in DOMAIN ix.terms},
   postings    |-> UNION {
                     {[term_id |-> t, doc_id |-> d,
                       tf_idf  |-> Format6(PostingGet(ix.postings[t][d], "tf_idf")),
                       tf      |-> PostingGet(ix.postings[t][d], "tf"),
                       idf     |-> Format6(PostingGet(ix.postings[t][d], "idf")),
                       df      |-> PostingGet(ix.postings[t][d], "df")]
                      : d \in DOMAIN ix.postings[t]} : t \in DOMAIN ix.postings},
   doc_lengths |-> {[doc_id |-> d, length |-> Format6(ix.doc_lengths[d])]
                      : d \in DOMAIN ix.doc_lengths}]

\* line.strip().split(',') on "doc_path,doc_id": the number of fields
SplitFields(l) == IF l.doc_path.comma THEN 3 ELSE 2

\* the lines of documents.dat whose unpacking into doc_path, doc_id raises
BadLines(files) == {l.line : l \in {m \in files.documents : SplitFields(m) # 2}}

\* load_index returns True
LoadSucceeds(files) == files.present /\ BadLines(files) = {}

\* the documents table read from the first n lines of documents.dat
DocumentsRead(ix, files, n) ==
  LET lines == {l \in files.documents : l.line <= n}
  IN  [ix EXCEPT
         !.documents = [p \in {l.doc_path : l \in lines} |->
                          (CHOOSE l \in lines : l.doc_path = p).doc_id],
         !.documents_keys = [i \in 1..n |->
                               (CHOOSE l \in lines : l.line = i).doc_path],
         !.documents_inv = [d \in {l.doc_id : l \in lines} |->
                              (CHOOSE l \in lines : l.doc_id = d).doc_path]]

\* load_index when open() of documents.dat raises: documents and documents_inv
\* were already cleared, the rest of the object is as it was
load_index_missing(ix) ==
  [ix EXCEPT !.documents = EmptyMap, !.documents_keys = << >>,
             !.documents_inv = EmptyMap]

\* load_index when a line of documents.dat does not split in two: the lines
\* before it were read, the rest of the object is as it was
load_index_malformed(ix, files) ==
  DocumentsRead(ix, files, Min(BadLines(files)) - 1)

\* lines 347-348: max(ids) + 1 if the table is not empty, else 1
NextIdAfterLoad(ids) == IF ids # {} THEN Max(ids) + 1 ELSE 1

\* load_index over the four files of a directory, all well formed
load_index_present(ix, files) ==
  LET ix1   == DocumentsRead(ix, files, Cardinality(files.documents))
      terms == [t \in {l.term : l \in files.terms} |->
                  (CHOOSE l \in files.terms : l.term = t).term_id]
  IN  [ix1 EXCEPT
         !.terms = terms,
         !.terms_inv = [i \in {l.term_id : l \in files.terms} |->
                          (CHOOSE l \in files.terms : l.term_id = i).term],
         !.postings = [t \in {l.term_id : l \in files.postings} |->
                         [d \in {l.doc_id : l \in {m \in files.postings : m.term_id = t}} |->
                            LET l == CHOOSE m \in files.postings : m.term_id = t /\ m.doc_id = d
                            IN  [tf_idf |-> Parse6(l.tf_idf), tf |-> l.tf,
                                 idf |-> Parse6(l.idf), df |-> l.df]]],
         !.doc_lengths = [d \in {l.doc_id : l \in files.doc_lengths} |->
                            Parse6((CHOOSE l \in files.doc_lengths : l.doc_id = d).length)],
         !.next_doc_id = NextIdAfterLoad(Range(ix1.documents)),
         !.next_term_id = NextIdAfterLoad(Range(terms)),
         !.total_docs = Cardinality(DOMAIN ix1.documents),
         !.total_terms = Cardinality(DOMAIN terms)]

\* Indexer.load_index(input_dir)
load_index(ix, files) ==
  IF ~files.present THEN load_index_missing(ix)
  ELSE IF BadLines(files) # {} THEN load_index_malformed(ix, files)
  ELSE load_index_present(ix, files)

(***************************************************************************)
(* URLs and the frontier (URLManager).                                     *)
(***************************************************************************)
\* A URL or document path: the page it names, whether it was written with a
\* trailing slash or a fragment, and whether its text holds a comma.
Url(p) == [page |-> p, slash |-> FALSE, frag |-> FALSE, comma |-> FALSE]

UrlSlash(p) == [page |-> p, slash |-> TRUE, frag |-> FALSE, comma |-> FALSE]

UrlFrag(p) == [page |-> p, slash |-> FALSE, frag |-> TRUE, comma |-> FALSE]

\* such as http://site/page?ids=1,2
UrlComma(p) == [page |-> p, slash |-> FALSE, frag |-> FALSE, comma |-> TRUE]

\* a faulty normalize_url that returns the URL as written
normalize_url_as_written(url) == url

\* utils.normalize_url: the fragment and the trailing path slashes removed
normalize_url(url) == [url EXCEPT !.frag = FALSE, !.slash = FALSE]

\* URLManager(max_urls): nothing pending, nothing visited
NewURLManager == [pending |-> << >>, visited |-> {}]

\* the canonical URLs the frontier has seen
Seen(um) == {um.pending[i].url : i \in 1..Len(um.pending)} \cup um.visited

\* pending + visited
FrontierSize(um) == Len(um.pending) + Cardinality(um.visited)

\* add_url refuses a URL already seen, or any URL when the frontier is full
AddRefused(um, url) ==
  normalize_url(url) \in Seen(um) \/ FrontierSize(um) >= MaxUrls

\* a faulty add_url that forgets the capacity and refuses duplicates only
add_url_no_capacity(um, url, depth) ==
  IF normalize_url(url) \in Seen(um) THEN um
  ELSE [um EXCEPT !.pending = Append(@, [url |-> normalize_url(url), depth |-> depth])]

\* URLManager.add_url(url, depth): push on top of the stack, unless refused
add_url(um, url, depth) ==
  IF AddRefused(um, url) THEN um
  ELSE [um EXCEPT !.pending = Append(@, [url |-> normalize_url(url), depth |-> depth])]

\* URLManager.is_empty
is_empty(um) == um.pending = << >>

\* URLManager.get_queue_size: the entries still pending
get_queue_size(um) == Len(um.pending)

\* a faulty frontier that serves its oldest entry (a queue)
OldestIndex(um) == 1

\* the position get_next_url serves: the top of the stack, the newest entry
TopIndex(um) == Len(um.pending)

\* URLManager.get_next_url: the entry it returns ...
NextEntry(um) == um.pending[TopIndex(um)]

\* ... and the frontier once that entry is removed and marked visited
get_next_url(um) ==
  [um EXCEPT !.pending = SubSeq(@, 1, TopIndex(um) - 1)
                           \o SubSeq(@, TopIndex(um) + 1, Len(@)),
             !.visited = @ \cup {NextEntry(um).url}]

(***************************************************************************)
(* The crawler: src/webcrawler.py.                                         *)
(***************************************************************************)
\* WebCrawler.__init__: self.stats
NewStats ==
  [documents_processed |-> 0,
   total_tokens        |-> 0,
   unique_terms        |-> 0,
   stop_words_matched  |-> 0,
   urls_crawled        |-> 0,
   urls_in_frontier    |-> 0]

\* WebCrawler.__init__: the Indexer it owns, documents/postings/ids reset
NewCrawlerIndexer ==
  [NewIndexer EXCEPT !.documents = EmptyMap, !.documents_keys = << >>,
                     !.postings = EmptyMap,
                     !.next_doc_id = 1, !.next_term_id = 1]

\* The statements of WebCrawler.process_document that write to the indexer
\* or to the statistics, in execution order.  cs = [ix, st] is the pair
\* (self.indexer, self.stats); doc_id is the local variable of line 210.
TokenSteps(text) ==
  LET toks == Tokens(text)
      RECURSIVE Steps(_)
      Steps(ts) ==
        IF ts = << >> THEN << >>
        ELSE (IF Fate(Head(ts)) = "empty" THEN << >>
              ELSE IF Fate(Head(ts)) = "stop"
                   THEN << [op |-> "total_tokens"], [op |-> "stop_words_matched"] >>
                   ELSE << [op |-> "total_tokens"] >>)
             \o Steps(Tail(ts))
  IN  Steps(toks)

TokenStepsTable == [text \in {in.text : in \in DocInputs} |-> TokenSteps(text)]

\* a faulty test that takes every term of a document for a new one
TermIsNewAlways(ix, term) == TRUE

\* line 256: term not in self.indexer.terms
TermIsNew(ix, term) == term \notin DOMAIN ix.terms

\* lines 255-268: the writes of the loop over term_freq
TermSteps(ix, term_freq, doc_id) ==
  LET RECURSIVE Steps(_)
      Steps(tf) ==
        IF tf = << >> THEN << >>
        ELSE (IF TermIsNew(ix, Head(tf).term)
              THEN << [op |-> "terms", term |-> Head(tf).term],
                      [op |-> "next_term_id"],
                      [op |-> "unique_terms"] >>
              ELSE << >>)
             \o << [op |-> "postings_init", term |-> Head(tf).term],
                    [op |-> "posting", term |-> Head(tf).term,
                     freq |-> Head(tf).freq, doc_id |-> doc_id] >>
             \o Steps(Tail(tf))
  IN  Steps(term_freq)

ProcessSteps(cs, url, text_content, failing) ==
  << [op |-> "documents", url |-> url, doc_id |-> cs.ix.next_doc_id],
     [op |-> "next_doc_id"] >>
  \o TokenStepsTable[text_content]
  \o TermSteps(cs.ix, TermFreqOf(text_content, failing), cs.ix.next_doc_id)
  \o << [op |-> "documents_processed"] >>

\* the effect of one such statement
ApplyStep(cs, s) ==
  CASE s.op = "documents" ->
         [cs EXCEPT !.ix.documents = Put(@, s.url, s.doc_id),
                    !.ix.documents_keys = PutKey(@, s.url)]
    [] s.op = "next_doc_id" ->
         [cs EXCEPT !.ix.next_doc_id = @ + 1]
    [] s.op = "total_tokens" ->
         [cs EXCEPT !.st.total_tokens = @ + 1]
    [] s.op = "stop_words_matched" ->
         [cs EXCEPT !.st.stop_words_matched = @ + 1]
    [] s.op = "terms" ->
         [cs EXCEPT !.ix.terms = Put(@, s.term, cs.ix.next_term_id)]
    [] s.op = "next_term_id" ->
         [cs EXCEPT !.ix.next_term_id = @ + 1]
    [] s.op = "unique_terms" ->
         [cs EXCEPT !.st.unique_terms = @ + 1]
    [] s.op = "postings_init" ->
         IF cs.ix.terms[s.term] \in DOMAIN cs.ix.postings THEN cs
         ELSE [cs EXCEPT !.ix.postings = Put(@, cs.ix.terms[s.term], EmptyMap)]
    [] s.op = "posting" ->
         [cs EXCEPT !.ix.postings[cs.ix.terms[s.term]] = Put(@, s.doc_id, [tf |-> s.freq])]
    [] s.op = "documents_processed" ->
         [cs EXCEPT !.st.documents_processed = @ + 1]

\* the first n statements of a statement list, executed
RECURSIVE RunSteps(_, _, _)
RunSteps(cs, steps, n) ==
  IF n = 0 \/ steps = << >> THEN cs
  ELSE RunSteps(ApplyStep(cs, Head(steps)), Tail(steps), n - 1)

\* WebCrawler.process_document(url, text_content), run to its end
process_document(cs, url, text_content, failing) ==
  LET steps == ProcessSteps(cs, url, text_content, failing)
  IN  RunSteps(cs, steps, Len(steps))

\* the for-loop of crawl() that pushes the links of a page; `events` is the
\* record of the add_url calls it made
RECURSIVE PushLinks(_, _, _, _, _)
PushLinks(um, urls_in_frontier, links, depth, events) ==
  IF links = << >>
  THEN [um |-> um, urls_in_frontier |-> urls_in_frontier, events |-> events]
  ELSE IF urls_in_frontier < MaxUrls
       THEN LET um1 == add_url(um, Head(links), depth + 1)
                e   == [ev |-> "add", url |-> Head(links),
                        accepted |-> um1 # um,
                        size |-> FrontierSize(um)]
            IN  PushLinks(um1, get_queue_size(um1), Tail(links), depth, Append(events, e))
       ELSE PushLinks(um, urls_in_frontier, Tail(links), depth, events)

\* WebCrawler.calculate_tf_idf: N = self.stats['documents_processed']
crawler_calculate_tf_idf(cs) ==
  [cs EXCEPT !.ix.postings = ScorePostings(@, cs.st.documents_processed)]

\* WebCrawler.save_index up to the call of Indexer.save_index
crawler_save_index(cs) ==
  [cs EXCEPT !.ix = calculate_document_lengths(
                      [cs.ix EXCEPT !.total_docs = cs.st.documents_processed,
                                    !.total_terms = cs.st.unique_terms])]

(***************************************************************************)
(* Inputs: the start URL, the links of a page, the paths of corpus files.  *)
(***************************************************************************)
\* start_url
Seed == UrlSlash(1)

\* the absolute URLs extract_links returns for a page
LinkLists ==
  { << >>,
    <<Url(2), UrlFrag(2), Url(3), Url(4)>>,
    <<UrlSlash(1), Url(4), Url(5)>> }

\* doc_path arguments of process_document_from_text
DocPaths == {Url(1), UrlComma(2)}

\* the site crawled and the corpus indexed: the texts the document at a URL
\* or path can have
PageTexts(page) ==
  CASE page = 1 -> {TextCats, TextStops}
    [] page = 2 -> {TextDog, TextCats}
    [] page = 3 -> {TextStops, TextDog}
    [] OTHER    -> {TextCats, TextDog}

PageInputs(url) == {in \in DocInputs : in.text \in PageTexts(url.page)}

(***************************************************************************)
(* State.                                                                  *)
(***************************************************************************)
VARIABLES
  pc,       \* where the program is: see Init and the actions
  um,       \* the URLManager of crawl()
  indexer,  \* the Indexer object
  stats,    \* WebCrawler.stats
  disk,     \* the index files of the output directory
  log,      \* history: frontier calls and doc ids issued, in order
  loaded,   \* history: load_index was called on this Indexer
  exit_reason  \* history: why the loop of crawl() ended

vars == <<pc, um, indexer, stats, disk, log, loaded, exit_reason>>

\* (self.indexer, self.stats)
CS == [ix |-> indexer, st |-> stats]

\* Either a WebCrawler was constructed and crawl() is about to be called
\* ("READY"), or a bare Indexer was constructed and its methods are called in
\* any order ("API").
Init ==
  /\ pc \in {"READY", "API"}
  /\ um = NewURLManager
  /\ indexer = IF pc = "READY" THEN NewCrawlerIndexer ELSE NewIndexer
  /\ stats = NewStats
  /\ disk = NoFiles
  /\ log = << >>
  /\ loaded = FALSE
  /\ exit_reason = "none"

(***************************************************************************)
(* crawl(): one action per way an iteration of the main loop can go.  An   *)
(* iteration that ends the loop runs the rest of crawl() as well: scoring, *)
(* the statistics and save_index.                                          *)
(***************************************************************************)
PopEvent == [ev |-> "pop", url |-> NextEntry(um).url, depth |-> NextEntry(um).depth]

DocEvent(url, doc_id) == [ev |-> "doc", url |-> url, doc_id |-> doc_id]

\* line 127: time.sleep(0.1) at the end of an iteration
SleepEvent == [ev |-> "sleep"]

\* lines 132-144, after the loop: calculate_tf_idf, print_statistics and
\* save_index.  A ValueError of math.log leaves crawl() before anything is
\* saved ("CRASHED").  In WebCrawler.save_index os.makedirs (lines 333-334) is
\* outside any try, so its OSError leaves crawl() as well ("SAVE_RAISED");
\* an OSError inside Indexer.save_index is caught there, False is returned
\* and crawl() returns normally ("SAVE_FAILED").
AfterLoop(cs, why) ==
  /\ exit_reason' = why
  /\ IF ScoreRaises(cs.ix.postings, cs.st.documents_processed)
     THEN /\ pc' = "CRASHED"
          /\ indexer' = cs.ix
          /\ stats' = cs.st
          /\ disk' = disk
     ELSE LET cs0 == crawler_calculate_tf_idf(cs)
              cs1 == crawler_save_index(cs0)
          IN  \/ /\ pc' = "DONE"
                 /\ indexer' = cs1.ix
                 /\ stats' = cs1.st
                 /\ disk' = save_index(cs1.ix)
              \/ /\ pc' = "SAVE_FAILED"
                 /\ indexer' = cs1.ix
                 /\ stats' = cs1.st
                 /\ disk' = disk
              \/ /\ pc' = "SAVE_RAISED"
                 /\ indexer' = cs0.ix
                 /\ stats' = cs0.st
                 /\ disk' = disk

\* a faulty depth test that lets entries one level too deep through
TooDeepOffByOne(depth) == depth > MaxDepth + 1

\* line 87: depth > self.max_depth
TooDeep(depth) == depth > MaxDepth

\* lines 74-75: the URLManager is created and the start URL pushed at depth 0
StartCrawl ==
  /\ pc = "READY"
  /\ LET pl == PushLinks(NewURLManager, 0, <<Seed>>, -1, << >>)
     IN  /\ um' = add_url(NewURLManager, Seed, 0)
         /\ log' = log \o pl.events
  /\ pc' = "CRAWLING"
  /\ UNCHANGED <<indexer, stats, disk, loaded, exit_reason>>

\* lines 85-89: the popped entry is deeper than max_depth
IterSkipDepth ==
  /\ pc = "CRAWLING" /\ ~is_empty(um)
  /\ TooDeep(NextEntry(um).depth)
  /\ um' = get_next_url(um)
  /\ log' = Append(log, PopEvent)
  /\ UNCHANGED <<pc, indexer, stats, disk, loaded, exit_reason>>

\* a faulty skip that counts the URL whose fetch failed as crawled
IterFetchFailCounted ==
  /\ pc = "CRAWLING" /\ ~is_empty(um)
  /\ ~TooDeep(NextEntry(um).depth)
  /\ um' = get_next_url(um)
  /\ log' = Append(log, PopEvent)
  /\ stats' = [stats EXCEPT !.urls_crawled = @ + 1]
  /\ UNCHANGED <<pc, indexer, disk, loaded, exit_reason>>

\* lines 95-97: fetch_url returned None
IterFetchFail ==
  /\ pc = "CRAWLING" /\ ~is_empty(um)
  /\ ~TooDeep(NextEntry(um).depth)
  /\ um' = get_next_url(um)
  /\ log' = Append(log, PopEvent)
  /\ UNCHANGED <<pc, indexer, stats, disk, loaded, exit_reason>>

\* lines 100, 122-124: response.read() raised before the document was indexed
IterErrorBeforeIndex ==
  /\ pc = "CRAWLING" /\ ~is_empty(um)
  /\ ~TooDeep(NextEntry(um).depth)
  /\ um' = get_next_url(um)
  /\ log' = Append(log, PopEvent)
  /\ UNCHANGED <<pc, indexer, stats, disk, loaded, exit_reason>>

\* a faulty limit test that breaks one URL too late
LimitReachedLate(urls_crawled) == urls_crawled > MaxUrls

\* line 118: self.stats['urls_crawled'] >= self.max_urls
LimitReached(urls_crawled) == urls_crawled >= MaxUrls

\* lines 85-120: the page is fetched, indexed, its links pushed and counted;
\* the loop breaks when the count reaches max_urls
IterProcess ==
  /\ pc = "CRAWLING" /\ ~is_empty(um)
  /\ ~TooDeep(NextEntry(um).depth)
  /\ \E in \in PageInputs(NextEntry(um).url), links \in LinkLists :
       LET e   == NextEntry(um)
           cs1 == process_document(CS, e.url, in.text, in.failing)
           pl  == IF cs1.st.urls_crawled < MaxUrls
                  THEN PushLinks(get_next_url(um), cs1.st.urls_in_frontier,
                                 links, e.depth, << >>)
                  ELSE [um |-> get_next_url(um),
                        urls_in_frontier |-> cs1.st.urls_in_frontier,
                        events |-> << >>]
           cs2 == [cs1 EXCEPT !.st.urls_in_frontier = pl.urls_in_frontier,
                              !.st.urls_crawled = @ + 1]
           done == <<PopEvent, DocEvent(e.url, indexer.next_doc_id)>> \o pl.events
       IN  /\ um' = pl.um
           /\ IF LimitReached(cs2.st.urls_crawled)
              THEN /\ AfterLoop(cs2, "limit")
                   /\ log' = log \o done
              ELSE /\ indexer' = cs2.ix
                   /\ stats' = cs2.st
                   /\ log' = log \o done \o <<SleepEvent>>
                   /\ UNCHANGED <<pc, disk, exit_reason>>
  /\ UNCHANGED loaded

\* a faulty handler that lets the error of extract_links leave the loop
IterErrorLeavesLoop ==
  /\ pc = "CRAWLING" /\ ~is_empty(um)
  /\ ~TooDeep(NextEntry(um).depth)
  /\ \E in \in PageInputs(NextEntry(um).url) :
       LET e   == NextEntry(um)
           cs1 == process_document(CS, e.url, in.text, in.failing)
       IN  /\ AfterLoop(cs1, "none")
           /\ log' = log \o <<PopEvent, DocEvent(e.url, indexer.next_doc_id)>>
  /\ um' = get_next_url(um)
  /\ UNCHANGED loaded

\* lines 104-108, 122-124: extract_links raised (urljoin on a malformed href)
\* after the document was indexed
IterErrorAfterIndex ==
  /\ pc = "CRAWLING" /\ ~is_empty(um)
  /\ ~TooDeep(NextEntry(um).depth)
  /\ \E in \in PageInputs(NextEntry(um).url) :
       LET e   == NextEntry(um)
           cs1 == process_document(CS, e.url, in.text, in.failing)
       IN  /\ indexer' = cs1.ix
           /\ stats' = cs1.st
           /\ log' = log \o <<PopEvent, DocEvent(e.url, indexer.next_doc_id)>>
  /\ um' = get_next_url(um)
  /\ UNCHANGED <<pc, disk, loaded, exit_reason>>

\* a faulty loop head that never sees the empty frontier and spins
LoopSpins ==
  /\ pc = "CRAWLING" /\ is_empty(um)
  /\ UNCHANGED vars

\* line 83: the frontier is empty
LoopExit ==
  /\ pc = "CRAWLING" /\ is_empty(um)
  /\ AfterLoop(CS, "empty")
  /\ UNCHANGED <<um, log, loaded>>

\* lines 129-130: KeyboardInterrupt while the loop is between two URLs
InterruptIdle ==
  /\ pc = "CRAWLING"
  /\ AfterLoop(CS, "interrupt")
  /\ UNCHANGED <<um, log, loaded>>

\* lines 129-130: KeyboardInterrupt after the pop, while the page is fetched
\* (n = 0) or after the first n writes of process_document
InterruptInProcess ==
  /\ pc = "CRAWLING" /\ ~is_empty(um)
  /\ ~TooDeep(NextEntry(um).depth)
  /\ \E in \in PageInputs(NextEntry(um).url) :
       LET e     == NextEntry(um)
           steps == ProcessSteps(CS, e.url, in.text, in.failing)
       IN  \E n \in 0..Len(steps) :
             /\ AfterLoop(RunSteps(CS, steps, n), "interrupt")
             /\ log' = log \o <<PopEvent>>
                        \o (IF n >= 1 THEN <<DocEvent(e.url, indexer.next_doc_id)>>
                            ELSE << >>)
  /\ um' = get_next_url(um)
  /\ UNCHANGED loaded

\* lines 129-130: KeyboardInterrupt while the links are pushed, after k of them
InterruptInLinks ==
  /\ pc = "CRAWLING" /\ ~is_empty(um)
  /\ ~TooDeep(NextEntry(um).depth)
  /\ \E in \in PageInputs(NextEntry(um).url), links \in LinkLists :
       \E k \in 1..Len(links) :
         LET e   == NextEntry(um)
             cs1 == process_document(CS, e.url, in.text, in.failing)
             pl  == PushLinks(get_next_url(um), cs1.st.urls_in_frontier,
                              SubSeq(links, 1, k), e.depth, << >>)
         IN  /\ AfterLoop([cs1 EXCEPT !.st.urls_in_frontier = pl.urls_in_frontier],
                          "interrupt")
             /\ um' = pl.um
             /\ log' = log \o <<PopEvent, DocEvent(e.url, indexer.next_doc_id)>> \o pl.events
  /\ UNCHANGED loaded

(***************************************************************************)
(* The Indexer's methods called directly.                                  *)
(***************************************************************************)
ApiProcessDocument ==
  /\ pc = "API"
  /\ Len(log) < MaxDocs
  /\ \E doc_path \in DocPaths : \E in \in PageInputs(doc_path) :
       /\ indexer' = process_document_from_text(indexer, in.text, doc_path, in.failing)
       /\ log' = Append(log, DocEvent(doc_path, indexer.next_doc_id))
  /\ UNCHANGED <<pc, exit_reason, um, stats, disk, loaded>>

ApiCalculateTfIdf ==
  /\ pc = "API"
  /\ indexer' = calculate_tf_idf(indexer)
  /\ UNCHANGED <<pc, exit_reason, um, stats, disk, log, loaded>>

ApiCalculateDocumentLengths ==
  /\ pc = "API"
  /\ indexer' = calculate_document_lengths(indexer)
  /\ UNCHANGED <<pc, exit_reason, um, stats, disk, log, loaded>>

ApiSaveIndex ==
  /\ pc = "API"
  /\ disk' = save_index(indexer)
  /\ UNCHANGED <<pc, exit_reason, um, indexer, stats, log, loaded>>

\* load_index(input_dir)
ApiLoadIndex ==
  /\ pc = "API"
  /\ indexer' = load_index(indexer, disk)
  /\ loaded' = TRUE
  /\ UNCHANGED <<pc, exit_reason, um, stats, disk, log>>

Next ==
  \/ StartCrawl
  \/ IterSkipDepth
  \/ IterFetchFail
  \/ IterErrorBeforeIndex
  \/ IterProcess
  \/ IterErrorAfterIndex
  \/ LoopExit
  \/ InterruptIdle
  \/ InterruptInProcess
  \/ InterruptInLinks
  \/ ApiProcessDocument
  \/ ApiCalculateTfIdf
  \/ ApiCalculateDocumentLengths
  \/ ApiSaveIndex
  \/ ApiLoadIndex

Spec == Init /\ [][Next]_vars

\* The steps crawl() takes by itself: every fetch returns or fails in finite
\* time, so an iteration that can run does run.  A KeyboardInterrupt may
\* come or not.
CrawlStep ==
  \/ StartCrawl
  \/ IterSkipDepth
  \/ IterFetchFail
  \/ IterErrorBeforeIndex
  \/ IterProcess
  \/ IterErrorAfterIndex
  \/ LoopExit

LiveSpec == Init /\ [][Next]_vars /\ WF_vars(CrawlStep)

(***************************************************************************)
(* Properties.  The history `log` is read through these views.             *)
(***************************************************************************)
\* the get_next_url calls so far, in order
Pops == SelectSeq(log, LAMBDA e : e.ev = "pop")

\* the doc ids issued so far, in order
DocEvents == SelectSeq(log, LAMBDA e : e.ev = "doc")

\* the add_url call recorded at position i of the log pushed an entry
Pushed(i) == log[i].ev = "add" /\ log[i].accepted

\* C1: during a crawl, whatever was pushed and popped, the pending plus the
\* visited entries of the frontier number at most max_urls.
FrontierBound == FrontierSize(um) <= MaxUrls

\* the frontier is full and has refused, for that reason alone, a URL it had
\* never seen
FrontierBoundWitness ==
  /\ FrontierSize(um) = MaxUrls
  /\ \E i \in 1..Len(log) :
       /\ log[i].ev = "add" /\ ~log[i].accepted /\ log[i].size = MaxUrls
       /\ \A j \in 1..(i - 1) : Pushed(j) => log[j].url.page # log[i].url.page

\* C2: a push of a URL whose canonical form (no fragment, no trailing slash)
\* is pending or visited changes nothing; a page is held by one frontier
\* entry, is popped at most once in a crawl and gets at most one doc id.
OneEntryPerUrl ==
  /\ \A i, j \in 1..Len(um.pending) :
       um.pending[i].url.page = um.pending[j].url.page => i = j
  /\ \A i \in 1..Len(um.pending) :
       \A v \in um.visited : v.page # um.pending[i].url.page
  /\ \A v, w \in um.visited : v.page = w.page => v = w
  /\ \A i \in 1..Len(log) :
       (log[i].ev = "add" /\ \E j \in 1..(i - 1) :
                               Pushed(j) /\ log[j].url.page = log[i].url.page)
         => ~log[i].accepted
  /\ pc # "API" =>
       LET pops == Pops
           docs == DocEvents
       IN  /\ \A i, j \in 1..Len(pops) : pops[i].url.page = pops[j].url.page => i = j
           /\ \A i, j \in 1..Len(docs) : docs[i].url.page = docs[j].url.page => i = j

\* a link with a fragment was refused while the frontier had room, because
\* its page was pending, and that page was later indexed
OneEntryPerUrlWitness ==
  \E i \in 1..Len(log) :
     /\ log[i].ev = "add" /\ ~log[i].accepted /\ log[i].url.frag
     /\ log[i].size < MaxUrls
     /\ \E j \in (i + 1)..Len(log) :
          log[j].ev = "doc" /\ log[j].url.page = log[i].url.page

\* the log replayed on a stack of its own: every pop returns the top
RECURSIVE LifoReplay(_, _)
LifoReplay(events, stack) ==
  IF events = << >> THEN TRUE
  ELSE LET e == Head(events)
       IN  IF e.ev = "add"
           THEN LifoReplay(Tail(events),
                           IF e.accepted
                           THEN Append(stack, [e.url EXCEPT !.frag = FALSE, !.slash = FALSE])
                           ELSE stack)
           ELSE IF e.ev = "pop"
           THEN /\ stack # << >>
                /\ stack[Len(stack)] = e.url
                /\ LifoReplay(Tail(events), SubSeq(stack, 1, Len(stack) - 1))
           ELSE LifoReplay(Tail(events), stack)

\* C3: the frontier is a stack: every pop returns the entry pushed most
\* recently among those still pending, so the children of the page visited
\* last are explored before the siblings pushed earlier.
LastInFirstOut == LifoReplay(log, << >>)

\* A -> [C, B], then B -> [D]: C is pushed, its sibling B popped, B's child D
\* pushed, and D is popped before C
LastInFirstOutWitness ==
  \E a \in 1..Len(log) :
     /\ Pushed(a)
     /\ \E p \in (a + 1)..Len(log) :
          /\ log[p].ev = "pop"
          /\ \E b \in (p + 1)..Len(log) :
               /\ Pushed(b)
               /\ \E c \in (b + 1)..Len(log) :
                    /\ log[c].ev = "pop" /\ log[c].url.page = log[b].url.page
                    /\ log[c].depth = log[p].depth + 1
                    /\ \E d \in (c + 1)..Len(log) :
                         /\ log[d].ev = "pop" /\ log[d].url.page = log[a].url.page
                         /\ log[d].depth = log[p].depth

\* C4: the doc ids issued, by the crawler or by process_document_from_text,
\* are 1, 2, ..., k in the order of issue; none is issued twice, reused or
\* renumbered, and a URL that is skipped or fails takes none.  (An Indexer
\* that has not been reloaded from disk.)
DocIdsInOrder ==
  ~loaded =>
    LET docs == DocEvents
        k    == Len(docs)
    IN  /\ \A i \in 1..k : docs[i].doc_id = i
        /\ \/ indexer.next_doc_id = k + 1
           \/ exit_reason = "interrupt" /\ indexer.next_doc_id = k
        /\ Range(indexer.documents) \subseteq 1..k
        /\ \A i \in 1..k :
             (\A j \in (i + 1)..k : docs[j].url # docs[i].url)
               => /\ docs[i].url \in DOMAIN indexer.documents
                  /\ indexer.documents[docs[i].url] = i

\* a crawl popped a URL that got no doc id, and issued id 2 or more later
DocIdsInOrderWitness ==
  /\ pc # "API"
  /\ \E i \in 1..(Len(log) - 1) :
       /\ log[i].ev = "pop" /\ log[i + 1].ev # "doc"
       /\ \E j \in (i + 1)..Len(log) : log[j].ev = "doc" /\ log[j].doc_id >= 2

\* the term ids are 1..m, one per stem, and cover the postings
TermIdsState ==
  ~loaded =>
    LET m == Cardinality(DOMAIN indexer.terms)
    IN  /\ Range(indexer.terms) = 1..m
        /\ \A s, t \in DOMAIN indexer.terms :
             indexer.terms[s] = indexer.terms[t] => s = t
        /\ \/ indexer.next_term_id = m + 1
           \/ exit_reason = "interrupt" /\ indexer.next_term_id = m
        /\ DOMAIN indexer.postings \subseteq Range(indexer.terms)

\* a step leaves every stem the id it has
TermIdsKept ==
  ~loaded' =>
    \A t \in DOMAIN indexer.terms :
       t \in DOMAIN indexer'.terms /\ indexer'.terms[t] = indexer.terms[t]

\* C5: a stem gets its term id once, at its first occurrence, and keeps it;
\* the ids issued are 1, 2, ..., m without reuse, no two stems share one, and
\* every term id of the postings is in the term table.  (An Indexer that has
\* not been reloaded from disk.)
TermIdsOnce == []TermIdsState /\ [][TermIdsKept]_vars

\* a crawl issued three term ids, and one of the stems occurs in two pages
TermIdsOnceWitness ==
  /\ pc # "API"
  /\ Cardinality(DOMAIN indexer.terms) >= 3
  /\ \E t \in DOMAIN indexer.terms :
       /\ indexer.terms[t] \in DOMAIN indexer.postings
       /\ Cardinality(DOMAIN indexer.postings[indexer.terms[t]]) >= 2

\* the doc ids the postings and the lengths of an index refer to
ReferencedDocIds(ix) ==
  UNION {DOMAIN ix.postings[t] : t \in DOMAIN ix.postings} \cup DOMAIN ix.doc_lengths

\* C6: after any documents were added, with or without a repeated path, and
\* after scoring, the length computation and saving, every doc id of the
\* postings and of the lengths is the id of an entry of the documents table,
\* in memory and in the files written.  (Stated for an Indexer that has not
\* been reloaded from disk; a repeated doc_path refutes it.)
DocIdsHaveDocuments ==
  ~loaded =>
    /\ ReferencedDocIds(indexer) \subseteq Range(indexer.documents)
    /\ disk.present =>
         {l.doc_id : l \in disk.postings} \cup {l.doc_id : l \in disk.doc_lengths}
           \subseteq {l.doc_id : l \in disk.documents}

\* the crawl ran to the end of its loop, not interrupted, and saved the index
CrawlCompleted == pc = "DONE" /\ exit_reason \in {"empty", "limit"}

\* C7: when a crawl that processed k documents has completed, documents.dat
\* has k entries and doc_lengths.dat one row for each doc id 1..k, each with
\* a length above zero.
CrawlSavesLengths ==
  CrawlCompleted =>
    /\ Cardinality(disk.documents) = stats.documents_processed
    /\ {l.doc_id : l \in disk.doc_lengths} = 1..stats.documents_processed
    /\ \A l \in disk.doc_lengths : l.length > 0

\* no posting of the document has a tf_idf other than 0
ZeroMass(postings, doc_id) ==
  \A t \in DOMAIN postings :
     doc_id \in DOMAIN postings[t] => PostingGet(postings[t][doc_id], "tf_idf") = 0

\* C8: a document without surviving terms, or whose postings all have tf_idf
\* 0, has length 1.0 once the crawl has scored and computed the lengths: the
\* length is neither 0 nor missing.
ZeroMassLengthOne ==
  CrawlCompleted =>
    \A d \in Range(indexer.documents) :
       ZeroMass(indexer.postings, d)
         => d \in DOMAIN indexer.doc_lengths /\ indexer.doc_lengths[d] = One

\* every posting carries the number of documents of its term as df, the idf
\* of its term, and tf * idf as tf_idf
ScoredByCount(postings) ==
  \A t \in DOMAIN postings :
     \A d \in DOMAIN postings[t] :
        LET p == postings[t][d]
        IN  /\ {"df", "idf", "tf_idf"} \subseteq DOMAIN p
            /\ p.df = Cardinality(DOMAIN postings[t])
            /\ p.tf_idf = p.tf * p.idf
            /\ \A e \in DOMAIN postings[t] : postings[t][e].idf = p.idf

\* a call of Indexer.calculate_tf_idf that returns
ApiScoringPass ==
  /\ ApiCalculateTfIdf
  /\ ~ScoreRaises(indexer.postings, Cardinality(DOMAIN indexer.documents))

\* the scoring pass at the end of a crawl
CrawlScoringPass == pc = "CRAWLING" /\ pc' = "DONE"

\* C9: a scoring pass leaves on every posting of a term the number of doc
\* ids that have a posting for the term; it recomputes df, idf and tf_idf on
\* the postings scored before, and a second pass right after changes nothing.
DfRecomputed ==
  [][(ApiScoringPass \/ CrawlScoringPass) =>
       /\ ScoredByCount(indexer'.postings)
       /\ ScorePostings(indexer'.postings,
                        IF pc = "API" THEN Cardinality(DOMAIN indexer'.documents)
                        ELSE stats'.documents_processed) = indexer'.postings]_vars

\* a posting was saved with df 1 and, a document and a pass later, has df 2
DfRecomputedWitness ==
  /\ pc = "API" /\ ~loaded /\ disk.present
  /\ ScoredByCount(indexer.postings)
  /\ \E l \in disk.postings :
       /\ l.df = 1
       /\ l.term_id \in DOMAIN indexer.postings
       /\ l.doc_id \in DOMAIN indexer.postings[l.term_id]
       /\ indexer.postings[l.term_id][l.doc_id].df = 2

\* C10: scoring gives every posting idf = ln(N/df), N the number of entries
\* of the documents table, and tf_idf = tf * idf; a term with a posting in
\* every document added gets idf 0 and tf_idf 0.
IdfOfCorpus ==
  [][(ApiScoringPass /\ ~loaded) =>
       \A t \in DOMAIN indexer'.postings :
          \A d \in DOMAIN indexer'.postings[t] :
             LET p == indexer'.postings[t][d]
             IN  /\ p.idf = Log(Cardinality(DOMAIN indexer'.documents),
                                Cardinality(DOMAIN indexer'.postings[t]))
                 /\ p.tf_idf = p.tf * p.idf
                 /\ DOMAIN indexer'.postings[t] = 1..Len(DocEvents)
                      => p.idf = 0 /\ p.tf_idf = 0]_vars

\* C11: scoring that runs with a document count N = 0 returns normally,
\* whatever the index holds when it starts: the crawl's scoring pass never
\* raises with documents_processed = 0.
ScoringWithoutDocumentsReturns ==
  stats.documents_processed = 0 => pc # "CRASHED"

\* C12: an interrupt at any point of the crawl loop still lets the scoring
\* pass run to its end and the crawl reach save_index: the interrupt itself
\* never keeps the index from being saved.
InterruptedCrawlSaves ==
  exit_reason = "interrupt" => pc # "CRASHED" /\ (pc = "DONE" => disk.present)

\* C13: an interrupt takes effect between two URLs only: when the loop was
\* left by an interrupt, every document that was issued a doc id is counted
\* in the N that scoring uses and the counters agree with the ids issued.
InterruptBetweenUrls ==
  exit_reason = "interrupt" =>
    /\ stats.documents_processed = Len(DocEvents)
    /\ indexer.next_doc_id = Len(DocEvents) + 1

\* C14: the loop of crawl() is left only at line 83 with an empty frontier,
\* at the break of line 120 with urls_crawled at max_urls, or by an
\* interrupt; every other iteration, a failed one included, stays in the
\* loop and has taken its entry off the frontier.
LoopEndsForThreeReasons ==
  [][pc = "CRAWLING" =>
       IF pc' # "CRAWLING"
       THEN \/ exit_reason' = "empty" /\ is_empty(um)
            \/ /\ exit_reason' = "limit"
               /\ stats.urls_crawled < MaxUrls
               /\ stats'.urls_crawled >= MaxUrls
            \/ exit_reason' = "interrupt"
       ELSE /\ exit_reason' = "none"
            /\ ~is_empty(um)
            /\ Len(log') > Len(log) /\ log'[Len(log) + 1] = PopEvent
            /\ NextEntry(um).url \in um'.visited
            /\ \A i \in 1..Len(um'.pending) : um'.pending[i].url # NextEntry(um).url
    ]_vars

\* a fetch failed and a link extraction failed, each followed by the next
\* entry, and the loop ended when the frontier was empty
LoopEndsForThreeReasonsWitness ==
  LET docs == DocEvents
  IN  /\ pc = "DONE" /\ exit_reason = "empty"
      /\ stats.urls_crawled < Len(docs)
      /\ \E i \in 1..(Len(log) - 1) :
           /\ log[i].ev = "pop" /\ ~TooDeep(log[i].depth)
           /\ log[i + 1].ev = "pop"

\* C15: an iteration that pops an entry within the depth bound and issues no
\* doc id, without an interrupt, is the skip of a failed fetch: it leaves the
\* index and every counter as they were, removes the entry from the frontier
\* and stays in the loop.
FetchFailureSkipsUrl ==
  [][(/\ pc = "CRAWLING" /\ ~is_empty(um)
      /\ ~TooDeep(NextEntry(um).depth)
      /\ log' = Append(log, PopEvent)
      /\ exit_reason' # "interrupt")
     => /\ pc' = "CRAWLING"
        /\ indexer' = indexer
        /\ stats' = stats
        /\ um' = get_next_url(um)
    ]_vars

\* a fetch failed and the next entry of the frontier was fetched and indexed
FetchFailureSkipsUrlWitness ==
  \E i \in 1..(Len(log) - 2) :
    /\ log[i].ev = "pop" /\ ~TooDeep(log[i].depth)
    /\ log[i + 1].ev = "pop"
    /\ log[i + 2].ev = "doc"

\* C16: urls_crawled never exceeds max_urls, and once it has reached
\* max_urls the loop has been left: no entry is popped from the frontier and
\* no page is fetched or indexed any more.
CrawledCountBounded ==
  /\ [](/\ stats.urls_crawled <= MaxUrls
        /\ (stats.urls_crawled >= MaxUrls => pc \in {"DONE", "CRASHED", "SAVE_FAILED", "SAVE_RAISED"}))
  /\ [][stats.urls_crawled >= MaxUrls =>
          /\ um' = um
          /\ log' = log
          /\ indexer'.documents = indexer.documents]_vars

\* the break of line 120 was taken with max_urls pages crawled
CrawledCountBoundedWitness ==
  /\ exit_reason = "limit"
  /\ stats.urls_crawled = MaxUrls
  /\ Len(Pops) >= MaxUrls

\* the depths of the entries waiting in the frontier
PendingDepths(m) == {m.pending[i].depth : i \in 1..Len(m.pending)}

\* C17: the depth is tested when an entry is popped and nowhere else: the
\* seed waits at depth 0, the links of a page popped at depth d are pushed at
\* depth d + 1 whatever d + 1 is, an entry popped with depth > max_depth is
\* dropped with the index, the counters and the rest of the frontier left as
\* they were, no doc id is issued for an entry deeper than max_depth and no
\* waiting entry is deeper than max_depth + 1.
DepthFilteredAtPop ==
  /\ [](LET pops == Pops
        IN  /\ \A d \in PendingDepths(um) : d <= MaxDepth + 1
            /\ (pops # << >> => pops[1].depth = 0)
            /\ \A i \in 1..Len(log) :
                 pc # "API" /\ log[i].ev = "doc" =>
                   /\ i > 1 /\ log[i - 1].ev = "pop"
                   /\ log[i - 1].url = log[i].url
                   /\ log[i - 1].depth <= MaxDepth)
  /\ [][pc = "CRAWLING" /\ log' # log =>
          /\ \A i \in 1..Len(um'.pending) :
               \/ \E j \in 1..Len(um.pending) : um.pending[j] = um'.pending[i]
               \/ um'.pending[i].depth = NextEntry(um).depth + 1
          /\ (NextEntry(um).depth > MaxDepth =>
                /\ um' = get_next_url(um)
                /\ log' = Append(log, PopEvent)
                /\ indexer' = indexer /\ stats' = stats /\ pc' = pc)
     ]_vars

\* a link was pushed at depth max_depth + 1, popped and dropped, and the
\* crawl went on until the frontier was empty
DepthFilteredAtPopWitness ==
  /\ pc = "DONE" /\ exit_reason = "empty"
  /\ \E i \in 1..Len(log) : log[i].ev = "pop" /\ log[i].depth = MaxDepth + 1
  /\ \E i \in 2..Len(log) : log[i].ev = "doc" /\ log[i - 1].depth = MaxDepth

\* C18: loading the files save_index wrote and saving again writes the same
\* four files, whatever index state they were written from.
SaveLoadSaveIdentical ==
  [][ApiLoadIndex /\ disk.present => save_index(indexer') = disk]_vars

\* the doc ids and the term ids of the documents, terms and postings tables
TableDocIds(ix) ==
  Range(ix.documents) \cup UNION {DOMAIN ix.postings[t] : t \in DOMAIN ix.postings}

TableTermIds(ix) == Range(ix.terms) \cup DOMAIN ix.postings

\* C19: a load_index call that succeeds leaves next_doc_id at the largest
\* doc id of the documents table plus one and next_term_id at the largest
\* term id plus one (1 for an empty table), and both counters are above
\* every id of the documents, terms and postings tables it loaded.
CountersAfterLoad ==
  [][ApiLoadIndex /\ LoadSucceeds(disk) =>
       /\ indexer'.next_doc_id =
            (IF indexer'.documents = EmptyMap THEN 1
             ELSE Max(Range(indexer'.documents)) + 1)
       /\ indexer'.next_term_id =
            (IF indexer'.terms = EmptyMap THEN 1
             ELSE Max(Range(indexer'.terms)) + 1)
       /\ \A d \in TableDocIds(indexer') : d < indexer'.next_doc_id
       /\ \A t \in TableTermIds(indexer') : t < indexer'.next_term_id
    ]_vars

\* C20: a load_index call that fails leaves the Indexer as it was before the
\* call: the six tables and both id counters are unchanged.
FailedLoadKeepsState ==
  [][ApiLoadIndex /\ ~LoadSucceeds(disk) =>
       /\ indexer'.documents = indexer.documents
       /\ indexer'.documents_inv = indexer.documents_inv
       /\ indexer'.terms = indexer.terms
       /\ indexer'.terms_inv = indexer.terms_inv
       /\ indexer'.postings = indexer.postings
       /\ indexer'.doc_lengths = indexer.doc_lengths
       /\ indexer'.next_doc_id = indexer.next_doc_id
       /\ indexer'.next_term_id = indexer.next_term_id
    ]_vars

\* C21: when the save step of a crawl fails, crawl() still returns to its
\* caller: no exception of the save step leaves crawl().
SaveFailureReported ==
  pc # "SAVE_RAISED"

\* the four filters in the order they are to apply
FilterOrder == <<"stop", "punctuation", "short", "number">>

FilterMatches(tok, f) ==
  CASE f = "stop"        -> is_stop_word(tok)
    [] f = "punctuation" -> starts_with_punctuation(tok)
    [] f = "short"       -> is_short(tok)
    [] f = "number"      -> is_number(tok)

\* the first filter of FilterOrder that matches the token, "none" if none does
FirstFilter(tok) ==
  LET hits == {i \in 1..Len(FilterOrder) : FilterMatches(tok, FilterOrder[i])}
  IN  IF hits = {} THEN "none" ELSE FilterOrder[Min(hits)]

\* the number of non-empty tokens of the text whose first matching filter is f
RejectedBy(text, f) ==
  LET toks == Tokens(text)
  IN  Cardinality({i \in 1..Len(toks) : toks[i] # << >> /\ FirstFilter(toks[i]) = f})

\* C22: adding a document counts each of its tokens in the counter of the
\* first filter that matches it, in the order stop word, leading punctuation,
\* length <= 2, number, and in no other counter: the Indexer's four counters
\* and the crawler's stop-word counter grow by exactly those numbers.
FiltersInOrder ==
  [][\A in \in DocInputs :
       /\ \A doc_path \in DocPaths :
            (/\ pc = "API"
             /\ indexer' = process_document_from_text(indexer, in.text, doc_path, in.failing))
            => /\ indexer'.stats.stop_words_matched
                    = indexer.stats.stop_words_matched + RejectedBy(in.text, "stop")
               /\ indexer'.stats.punctuation_words_ignored
                    = indexer.stats.punctuation_words_ignored + RejectedBy(in.text, "punctuation")
               /\ indexer'.stats.short_words_ignored
                    = indexer.stats.short_words_ignored + RejectedBy(in.text, "short")
               /\ indexer'.stats.numbers_ignored
                    = indexer.stats.numbers_ignored + RejectedBy(in.text, "number")
       /\ (/\ pc = "CRAWLING" /\ pc' = "CRAWLING" /\ ~is_empty(um)
           /\ indexer' = process_document(CS, NextEntry(um).url, in.text, in.failing).ix)
          => stats'.stop_words_matched
               = stats.stop_words_matched + RejectedBy(in.text, "stop")
    ]_vars

\* "The a to" was added: "a" and "to", stop words of length <= 2, were counted
\* as stop words, and "dog cat 42 ox 123": 42 was counted as short
FiltersInOrderWitness ==
  /\ pc = "API"
  /\ indexer.next_doc_id = 3
  /\ indexer.stats.stop_words_matched = 3
  /\ indexer.stats.short_words_ignored = 2
  /\ indexer.stats.numbers_ignored = 1
  /\ indexer.stats.punctuation_words_ignored = 0

\* every posting of the index carries the three fields scoring writes
AllScored(ix) ==
  \A t \in DOMAIN ix.postings : \A d \in DOMAIN ix.postings[t] :
    {"tf_idf", "idf", "df"} \subseteq DOMAIN ix.postings[t][d]

\* no posting of the index carries a field scoring writes
NoneScored(ix) ==
  \A t \in DOMAIN ix.postings : \A d \in DOMAIN ix.postings[t] :
    DOMAIN ix.postings[t][d] = {"tf"}

\* C23: while the loop of crawl() runs nothing is scored or saved; once the
\* loop has ended, in whichever of the three ways, scoring has run over every
\* posting, then the lengths, then the save: every posting has tf_idf, idf
\* and df, and the files written are those of the scored index.  (Runs whose
\* output directory cannot be written are left aside.)
ScoreThenSaveAfterLoop ==
  /\ (pc \in {"READY", "CRAWLING"} => ~disk.present /\ NoneScored(indexer))
  /\ (exit_reason # "none" /\ pc \notin {"SAVE_FAILED", "SAVE_RAISED"} =>
        /\ pc = "DONE"
        /\ AllScored(indexer)
        /\ disk = save_index(indexer)
        /\ indexer.doc_lengths = calculate_document_lengths(indexer).doc_lengths)

\* C24: between any two fetch attempts of a crawl (the entries popped within
\* the depth bound) the loop has slept once at least.
DelayBetweenFetches ==
  \A i, j \in 1..Len(log) :
    (/\ i < j
     /\ log[i].ev = "pop" /\ log[i].depth <= MaxDepth
     /\ log[j].ev = "pop" /\ log[j].depth <= MaxDepth)
    => \E k \in (i + 1)..(j - 1) : log[k].ev = "sleep"

\* the positions of the tokens of the text that no filter rejects
Surviving(text) ==
  LET toks == Tokens(text)
  IN  {i \in 1..Len(toks) : toks[i] # << >> /\ FirstFilter(toks[i]) = "none"}

\* how many surviving tokens of the text stem to the term
Occurrences(text, failing, term) ==
  Cardinality({i \in Surviving(text) : StemOrFallback(Tokens(text)[i], failing) = term})

\* the postings of ix1 are those of ix0 plus, for document d, one posting per
\* term of the text with the number of its surviving tokens as tf
PostingsOfAddition(ix0, ix1, d, text, failing) ==
  LET stems == {StemOrFallback(Tokens(text)[i], failing) : i \in Surviving(text)}
  IN  /\ \A term \in stems :
           /\ term \in DOMAIN ix1.terms
           /\ ix1.terms[term] \in DOMAIN ix1.postings
           /\ d \in DOMAIN ix1.postings[ix1.terms[term]]
           /\ ix1.postings[ix1.terms[term]][d].tf = Occurrences(text, failing, term)
           /\ ix1.postings[ix1.terms[term]][d].tf >= 1
      /\ \A t \in DOMAIN ix1.postings :
           /\ d \in DOMAIN ix1.postings[t] =>
                \E term \in stems : ix1.terms[term] = t
           /\ \A e \in DOMAIN ix1.postings[t] \ {d} :
                /\ t \in DOMAIN ix0.postings
                /\ e \in DOMAIN ix0.postings[t]
                /\ ix1.postings[t][e] = ix0.postings[t][e]
      /\ \A t \in DOMAIN ix0.postings : \A e \in DOMAIN ix0.postings[t] \ {d} :
           t \in DOMAIN ix1.postings /\ e \in DOMAIN ix1.postings[t]

\* C25: after a document is added, through the Indexer or in a crawl, its
\* doc id has a posting under a term exactly when a surviving token of the
\* text stems to that term, with that number of tokens as tf, and the
\* postings of every other document are what they were.  (Stated for an
\* Indexer that has not been reloaded from disk.)
PostingsFollowTokens ==
  [][\A in \in DocInputs :
       /\ \A doc_path \in DocPaths :
            (/\ pc = "API" /\ ~loaded
             /\ indexer' = process_document_from_text(indexer, in.text, doc_path, in.failing))
            => PostingsOfAddition(indexer, indexer', indexer.next_doc_id,
                                  in.text, in.failing)
       /\ (/\ pc = "CRAWLING" /\ pc' = "CRAWLING" /\ ~is_empty(um)
           /\ indexer' = process_document(CS, NextEntry(um).url, in.text, in.failing).ix)
          => PostingsOfAddition(indexer, indexer', indexer.next_doc_id,
                                in.text, in.failing)
    ]_vars

\* "Cats, cat dogs." then "dog cat 42 ox 123": the term of cats/cat has tf 2
\* in document 1 and tf 1 in document 2
PostingsFollowTokensWitness ==
  /\ pc = "API" /\ ~loaded /\ Len(log) = 2
  /\ 1 \in DOMAIN indexer.postings
  /\ DOMAIN indexer.postings[1] = {1, 2}
  /\ indexer.postings[1][1].tf = 2
  /\ indexer.postings[1][2].tf = 1

\* the term a surviving token is to be counted under
ExpectedTerm(tok, failing) == IF tok \in failing THEN tok ELSE stem(tok)

\* the terms of ix1 that ix0 did not have are terms of surviving tokens of the
\* text, and every surviving token, one the stemmer raised on included, is
\* counted in the tf of its term for document d
StemmedSurvivors(ix0, ix1, d, text, failing) ==
  LET toks == Tokens(text)
      live == Surviving(text)
  IN  /\ DOMAIN ix1.terms \ DOMAIN ix0.terms
           \subseteq {ExpectedTerm(toks[i], failing) : i \in live}
      /\ \A i \in live :
           LET term == ExpectedTerm(toks[i], failing)
           IN  /\ term \in DOMAIN ix1.terms
               /\ d \in DOMAIN ix1.postings[ix1.terms[term]]
               /\ ix1.postings[ix1.terms[term]][d].tf =
                    Cardinality({j \in live : ExpectedTerm(toks[j], failing) = term})
      /\ ix1.next_doc_id = d + 1

\* C26: the stemmer is applied to the tokens that passed the four filters
\* and to no other; a token on which it raises is kept unstemmed as its own
\* term and counted, and the rest of the document is processed as usual.
StemFailureFallsBack ==
  [][\A in \in DocInputs :
       /\ \A doc_path \in DocPaths :
            (/\ pc = "API"
             /\ indexer' = process_document_from_text(indexer, in.text, doc_path, in.failing))
            => StemmedSurvivors(indexer, indexer', indexer.next_doc_id,
                                in.text, in.failing)
       /\ (/\ pc = "CRAWLING" /\ pc' = "CRAWLING" /\ ~is_empty(um)
           /\ indexer' = process_document(CS, NextEntry(um).url, in.text, in.failing).ix)
          => StemmedSurvivors(indexer, indexer', indexer.next_doc_id,
                              in.text, in.failing)
    ]_vars

\* the stemmer raised on "dogs" of "Cats, cat dogs.": the index has the term
\* "dogs" next to "cat", and "dog" of another document is a different term
StemFailureFallsBackWitness ==
  /\ pc \in {"API", "CRAWLING"}
  /\ {<<"d", "o", "g", "s">>, <<"d", "o", "g">>, <<"c", "a", "t">>}
       \subseteq DOMAIN indexer.terms
  /\ indexer.terms[<<"d", "o", "g", "s">>] # indexer.terms[<<"d", "o", "g">>]

\* C27: a crawl that is started leaves its loop after finitely many
\* iterations and, unless it was interrupted, goes through scoring to the
\* save step.
CrawlTerminates ==
  (pc = "READY") ~>
     (\/ exit_reason = "interrupt"
      \/ /\ exit_reason \in {"empty", "limit"}
         /\ pc \in {"DONE", "SAVE_FAILED", "SAVE_RAISED"})

\* a crawl over a site with a cycle (a page links back to the start page, the
\* link is refused as already seen) ran until the frontier was empty
CrawlTerminatesWitness ==
  /\ pc = "DONE" /\ exit_reason = "empty"
  /\ Len(Pops) >= 3
  /\ \E i \in 1..Len(log) :
       /\ log[i].ev = "add" /\ ~log[i].accepted
       /\ \E j \in 1..(i - 1) : log[j].ev = "pop" /\ log[j].url = normalize_url(log[i].url)

\* C28: whenever an iteration of the crawl loop is about to start and when
\* the loop has been left other than by an interrupt, urls_crawled,
\* documents_processed and the number of doc ids issued are equal, and at
\* most max_urls.
CrawlCountersAgree ==
  pc \notin {"READY", "API"} /\ exit_reason # "interrupt" =>
    /\ stats.urls_crawled = stats.documents_processed
    /\ stats.documents_processed = indexer.next_doc_id - 1
    /\ indexer.next_doc_id - 1 <= MaxUrls

\* C29: no posting ever carries a negative idf or tf_idf: whenever a scoring
\* pass has written them, the N it used was at least the df of the term.
ScoresNotNegative ==
  \A t \in DOMAIN indexer.postings : \A d \in DOMAIN indexer.postings[t] :
    LET p == indexer.postings[t][d]
    IN  /\ ("idf" \in DOMAIN p => p.idf >= 0)
        /\ ("tf_idf" \in DOMAIN p => p.tf_idf >= 0)

\* the tables and counters of two Indexer objects are the same
SameIndex(ix1, ix2) ==
  /\ ix1.documents = ix2.documents
  /\ ix1.documents_inv = ix2.documents_inv
  /\ ix1.terms = ix2.terms
  /\ ix1.terms_inv = ix2.terms_inv
  /\ ix1.postings = ix2.postings
  /\ ix1.next_doc_id = ix2.next_doc_id
  /\ ix1.next_term_id = ix2.next_term_id

\* C30: from the same index, WebCrawler.process_document and
\* Indexer.process_document_from_text of the same url and text leave the same
\* documents, documents_inv, terms, terms_inv, postings and id counters.
SameIndexEitherWay ==
  [][\A in \in DocInputs :
       (/\ pc = "CRAWLING" /\ pc' = "CRAWLING" /\ ~is_empty(um)
        /\ indexer' = process_document(CS, NextEntry(um).url, in.text, in.failing).ix)
       => SameIndex(indexer',
                    process_document_from_text(indexer, in.text, NextEntry(um).url,
                                               in.failing))
    ]_vars


\* the fields of a posting that scoring does not write
Unscored(posting) ==
  [f \in DOMAIN posting \ {"tf_idf", "idf", "df"} |-> posting[f]]

\* index b has the posting keys, the tf of every posting, the documents and
\* terms tables and the two id counters of index a
SameButScores(a, b) ==
  /\ DOMAIN b.postings = DOMAIN a.postings
  /\ \A t \in DOMAIN a.postings :
        /\ DOMAIN b.postings[t] = DOMAIN a.postings[t]
        /\ \A d \in DOMAIN a.postings[t] :
              /\ b.postings[t][d].tf = a.postings[t][d].tf
              /\ Unscored(b.postings[t][d]) = Unscored(a.postings[t][d])
  /\ b.documents = a.documents
  /\ b.documents_keys = a.documents_keys
  /\ b.terms = a.terms
  /\ b.next_doc_id = a.next_doc_id
  /\ b.next_term_id = a.next_term_id

\* C31: a scoring pass, Indexer.calculate_tf_idf or the one crawl() runs after
\* its loop, leaves the posting keys, every tf, the documents and terms
\* tables and both id counters as they were; where the pass is the whole
\* step, nothing of the index but the postings differs afterwards, and the
\* crawl's statistics are untouched.
ScoringFrame ==
  [][(ApiCalculateTfIdf =>
        /\ SameButScores(indexer, indexer')
        /\ [indexer' EXCEPT !.postings = indexer.postings] = indexer)
     /\
     ((LoopExit \/ InterruptIdle) =>
        /\ SameButScores(indexer, indexer')
        /\ stats' = stats
        /\ (pc' = "SAVE_RAISED" =>
              [indexer' EXCEPT !.postings = indexer.postings] = indexer))]_vars

\* two documents were added and scored: a posting with tf 2 carries a weight
\* and the id counters stand where the additions left them
ScoringFrameWitness ==
  /\ pc = "API" /\ ~loaded
  /\ Len(DocEvents) = 2 /\ indexer.next_doc_id = 3
  /\ DOMAIN indexer.postings # {}
  /\ AllScored(indexer)
  /\ \E t \in DOMAIN indexer.postings : \E d \in DOMAIN indexer.postings[t] :
        indexer.postings[t][d].tf >= 2 /\ indexer.postings[t][d].tf_idf # 0


\* the (term_id, doc_id) keys of the postings of an index
PostingKeys(ix) ==
  UNION {{<<t, d>> : d \in DOMAIN ix.postings[t]} : t \in DOMAIN ix.postings}

\* the sum of tf over the postings with the given keys
RECURSIVE SumTf(_, _)
SumTf(ix, keys) ==
  IF keys = {} THEN 0
  ELSE LET k == CHOOSE k \in keys : TRUE
       IN  ix.postings[k[1]][k[2]].tf + SumTf(ix, keys \ {k})

\* C32: on an Indexer that only had documents added (and scored, measured or
\* saved in between), every non-empty normalized token went to exactly one
\* place: tokens_processed is the sum of the four rejection counters and of
\* tf over all postings.
TokensAccounted ==
  pc = "API" /\ ~loaded =>
    indexer.stats.tokens_processed =
        indexer.stats.stop_words_matched
      + indexer.stats.punctuation_words_ignored
      + indexer.stats.short_words_ignored
      + indexer.stats.numbers_ignored
      + SumTf(indexer, PostingKeys(indexer))

\* two documents were added, one of stop words only and one with terms, short
\* words and a number: all of stop, short, number and tf have a share
TokensAccountedWitness ==
  /\ pc = "API" /\ ~loaded
  /\ indexer.next_doc_id = 3
  /\ indexer.stats.tokens_processed = 8
  /\ indexer.stats.stop_words_matched = 3
  /\ indexer.stats.short_words_ignored = 2
  /\ indexer.stats.numbers_ignored = 1
  /\ SumTf(indexer, PostingKeys(indexer)) = 2

====
